---- MODULE Spec2Model ----
(***************************************************************************)
(* drivers/vfio/mig_state_study.py: the study of the VFIO migration FSM    *)
(* table.  The script reads the table all_arcs[cur, next] = step, derives  *)
(* the blocked transitions and the one-hop arcs, walks the table to get    *)
(* the combination paths, compares every pair with the shortest paths of   *)
(* the arc graph and lists the error unwind path of every intermediate     *)
(* state.                                                                  *)
(*                                                                         *)
(* States are numbered so that sorted() is the numeric order; ERROR is 0.  *)
(* The tables are keyed by pairs of distinct states other than ERROR: the  *)
(* script never reads an entry all_arcs[c, c], and the ERROR row and       *)
(* column of the kernel table hold ERROR only, which adds blocked pairs    *)
(* and nothing else.  The script ends a run at the first exception; err    *)
(* names it: "KeyError" for a failed table lookup, and for the asserts of  *)
(* lines 52, 60 and 99 the fatal conditions they stand for,                *)
(* "IncompleteTable", "RoutingBlocked" and "RoutingInconsistency".  The    *)
(* disabled block of lines 32-40 and the comparison with the mlx5 arcs     *)
(* (lines 111-126) are left out.                                           *)
(***************************************************************************)
EXTENDS Integers, Sequences, FiniteSets, TLC

\* Number of states that may occur in a table.
NumStates == 4
\* Number of places where a table may differ from the all-direct table.
MaxDefects == 3

States == 1 .. NumStates
\* The "ERROR" step of the table.
ERROR == 0
NoPair == <<>>
EmptyMap == [p \in {} |-> <<>>]

VARIABLES
    all_arcs,             \* the parsed table: (cur, next) -> step
    pc,                   \* position of the script
    all_states,
    all_state_pairs,
    blocked_transitions,
    fsm_arcs,
    combination_paths,
    walk,                 \* the (c, n) of the running while loop, or NoPair
    path,                 \* the path of the running while loop
    all_paths,
    todo,                 \* pairs the shortest path loop has not reached yet
    ambiguity,            \* pairs printed under "Shortest path ambiguity"
    unwind,               \* what "Error unwind study" prints per (path, err)
    err,                  \* the exception that ended the script, or "none"
    err_at                \* the pair the exception was raised for

vars == <<all_arcs, pc, all_states, all_state_pairs, blocked_transitions,
          fsm_arcs, combination_paths, walk, path, all_paths, todo,
          ambiguity, unwind, err, err_at>>

\* ------------------------------------------------------------------ helpers

RECURSIVE SubsetsUpTo(_, _)
\* The subsets of S with at most k elements.
SubsetsUpTo(S, k) ==
    IF k = 0 \/ S = {} THEN {{}}
    ELSE LET x == CHOOSE y \in S : TRUE
             rest == S \ {x}
         IN  SubsetsUpTo(rest, k) \cup {T \cup {x} : T \in SubsetsUpTo(rest, k - 1)}

Last(p) == p[Len(p)]
Elems(p) == {p[i] : i \in 1 .. Len(p)}

\* p < q in the order sorted() gives tuples
TupleLess(p, q) == p[1] < q[1] \/ (p[1] = q[1] /\ p[2] < q[2])
FirstSorted(S) == CHOOSE p \in S : \A q \in S : q = p \/ TupleLess(p, q)

\* dict assignment m[k] = v
Put(m, k, v) == [x \in DOMAIN m \cup {k} |-> IF x = k THEN v ELSE m[x]]

\* ------------------------------------------------- lines 42-48: derivation

AllStates(arcs) == {p[1] : p \in DOMAIN arcs}
AllStatePairs(states) == {p \in states \X states : p[1] # p[2]}
BlockedTransitions(arcs, pairs) == {p \in pairs : arcs[p] = ERROR}
\* The arc taken to be the pair itself instead of its step.
PairArcs(arcs, pairs, blocked) == {<<p[1], p[2]>> : p \in pairs \ blocked}
FsmArcs(arcs, pairs, blocked) == {<<p[1], arcs[p]>> : p \in pairs \ blocked}

\* The pairs line 56 iterates over.
CombinationPairs == (all_state_pairs \ fsm_arcs) \ blocked_transitions

\* The key of the lookup all_arcs[path[-1], n] of line 59.
StepKey(p, n) == <<Last(p), n>>

\* Line 65 without "- blocked_transitions".
ArcPathsKeepBlocked(arcs, blocked) == arcs
\* The pairs line 65 gives a two-state path.
ArcPaths(arcs, blocked) == arcs \ blocked
\* Every path of all_paths set to [c, n], the walked paths overwritten.
AllPathsTwoStates(comb, arcs, blocked) ==
    [p \in DOMAIN comb \cup (arcs \ blocked) |-> <<p[1], p[2]>>]
AllPaths(comb, arcs, blocked) ==
    [p \in DOMAIN comb \cup ArcPaths(arcs, blocked) |->
        IF p \in ArcPaths(arcs, blocked) THEN <<p[1], p[2]>> ELSE comb[p]]

\* ------------------------------- lines 89-91: networkx all_shortest_paths

RECURSIVE Bfs(_, _, _, _)
\* front: every shortest path from the source to the nodes of the current
\* level; seen: the nodes of this and the earlier levels.
Bfs(G, front, seen, n) ==
    LET hits == {p \in front : Last(p) = n}
        ext  == UNION {{Append(p, a[2]) : a \in {b \in G : b[1] = Last(p) /\ b[2] \notin seen}}
                       : p \in front}
    IN  IF hits # {} THEN hits
        ELSE IF ext = {} THEN {}
        ELSE Bfs(G, ext, seen \cup {Last(p) : p \in ext}, n)

AllShortestPaths(G, c, n) == Bfs(G, {<<c>>}, {c}, n)

\* ------------------------------------------ lines 104-109: unwind lookup

UNRECOVERABLE == <<ERROR>>
\* The lookup keyed by the path's target, path[-1], instead of its origin.
ErrPathToTarget(paths, p, e) ==
    IF <<e, Last(p)>> \in DOMAIN paths THEN paths[<<e, Last(p)>>] ELSE UNRECOVERABLE
\* all_paths.get((err, path[0])), None printed as "err -> ERROR"
ErrPath(paths, p, e) ==
    IF <<e, p[1]>> \in DOMAIN paths THEN paths[<<e, p[1]>>] ELSE UNRECOVERABLE
Intermediates(p) == {p[i] : i \in 2 .. Len(p) - 1}

\* ------------------------------------------------------------ the script

PairsOf(Q) == {p \in Q \X Q : p[1] # p[2]}

\* all_arcs is a total table over the states Q: the all-direct table of Q
\* with at most d entries given another step (a state of Q or ERROR).  The
\* keys are the pairs of distinct states other than ERROR.
TotalTable(Q, d) ==
    \E S \in SubsetsUpTo(PairsOf(Q), d) :
        \E f \in [S -> Q \cup {ERROR}] :
            /\ \A q \in S : f[q] # q[2]
            /\ all_arcs = [p \in PairsOf(Q) |-> IF p \in S THEN f[p] ELSE p[2]]

\* all_arcs is such a table with entries and rows left out: at most d
\* defects, a defect being another step, a missing entry or a state without
\* a row.
PartialTable(Q, d) ==
    \E M \in SubsetsUpTo(PairsOf(Q), d) :
        \E R \in SubsetsUpTo(Q, d - Cardinality(M)) :
            \E S \in SubsetsUpTo(PairsOf(Q) \ M, d - Cardinality(M) - Cardinality(R)) :
                \E f \in [S -> Q \cup {ERROR}] :
                    /\ \A q \in S : f[q] # q[2]
                    /\ all_arcs = [p \in {q \in PairsOf(Q) \ M : q[1] \notin R} |->
                                       IF p \in S THEN f[p] ELSE p[2]]

\* The state of the script before line 42.
Start ==
    /\ pc = "derive"
    /\ all_states = {}
    /\ all_state_pairs = {}
    /\ blocked_transitions = {}
    /\ fsm_arcs = {}
    /\ combination_paths = EmptyMap
    /\ walk = NoPair
    /\ path = <<>>
    /\ all_paths = EmptyMap
    /\ todo = {}
    /\ ambiguity = {}
    /\ unwind = EmptyMap
    /\ err = "none"
    /\ err_at = NoPair

Init == TotalTable(States, MaxDefects) /\ Start
\* One more state, one defect less.
InitWide == TotalTable(1 .. NumStates + 1, MaxDefects - 1) /\ Start
InitPartial == PartialTable(States, MaxDefects) /\ Start

Raise(e, at) ==
    /\ pc' = "abort"
    /\ err' = e
    /\ err_at' = at

\* Lines 42-48.  all_arcs[c, n] of line 46 raises KeyError for a pair of
\* row states the table has no entry for.
Derive ==
    /\ pc = "derive"
    /\ all_states' = AllStates(all_arcs)
    /\ all_state_pairs' = AllStatePairs(all_states')
    /\ IF all_state_pairs' \subseteq DOMAIN all_arcs
       THEN /\ blocked_transitions' = BlockedTransitions(all_arcs, all_state_pairs')
            /\ fsm_arcs' = FsmArcs(all_arcs, all_state_pairs', blocked_transitions')
            /\ pc' = "complete"
            /\ UNCHANGED <<err, err_at>>
       ELSE /\ Raise("KeyError", NoPair)
            /\ UNCHANGED <<blocked_transitions, fsm_arcs>>
    /\ UNCHANGED <<all_arcs, combination_paths, walk, path, all_paths, todo,
                   ambiguity, unwind>>

\* Lines 50-52: "Table is complete".
TableIsComplete ==
    /\ pc = "complete"
    /\ IF \A p \in all_state_pairs : p \in DOMAIN all_arcs
       THEN pc' = "combination" /\ UNCHANGED <<err, err_at>>
       ELSE Raise("IncompleteTable", NoPair)
    /\ UNCHANGED <<all_arcs, all_states, all_state_pairs, blocked_transitions,
                   fsm_arcs, combination_paths, walk, path, all_paths, todo,
                   ambiguity, unwind>>

\* Lines 56-57: the for loop takes the next pair of the set, in any order.
StartPath ==
    /\ pc = "combination"
    /\ walk = NoPair
    /\ \E p \in CombinationPairs \ DOMAIN combination_paths :
          /\ walk' = p
          /\ path' = <<p[1]>>
    /\ UNCHANGED <<all_arcs, pc, all_states, all_state_pairs, blocked_transitions,
                   fsm_arcs, combination_paths, all_paths, todo, ambiguity,
                   unwind, err, err_at>>

\* Lines 58-61: one turn of the while loop; line 61 when the loop ends.
\* The loop has no other exit; a path of more than Cardinality(all_states) + 1
\* states holds a state twice, and the model follows the loop no further.
WalkCap == Cardinality(all_states) + 2
AppendStep ==
    /\ pc = "combination"
    /\ walk # NoPair
    /\ Last(path) # walk[2]
    /\ Len(path) < WalkCap
    /\ IF StepKey(path, walk[2]) \notin DOMAIN all_arcs
       THEN /\ Raise("KeyError", walk)
            /\ UNCHANGED <<path, walk, combination_paths>>
       ELSE LET next == Append(path, all_arcs[StepKey(path, walk[2])])
            IN  /\ path' = next
                /\ IF ERROR \in Elems(next)
                   THEN /\ Raise("RoutingBlocked", walk)
                        /\ UNCHANGED <<walk, combination_paths>>
                   ELSE /\ UNCHANGED <<pc, err, err_at>>
                        /\ IF Last(next) = walk[2]
                           THEN /\ combination_paths' = Put(combination_paths, walk, next)
                                /\ walk' = NoPair
                           ELSE UNCHANGED <<walk, combination_paths>>
    /\ UNCHANGED <<all_arcs, all_states, all_state_pairs, blocked_transitions,
                   fsm_arcs, all_paths, todo, ambiguity, unwind>>

\* Lines 63-66, and the loop of line 88 is set up.
CopyPaths ==
    /\ pc = "combination"
    /\ walk = NoPair
    /\ CombinationPairs \subseteq DOMAIN combination_paths
    /\ all_paths' = AllPaths(combination_paths, fsm_arcs, blocked_transitions)
    /\ todo' = all_state_pairs \ blocked_transitions
    /\ pc' = "shortest"
    /\ UNCHANGED <<all_arcs, all_states, all_state_pairs, blocked_transitions,
                   fsm_arcs, combination_paths, walk, path, ambiguity, unwind,
                   err, err_at>>

\* Lines 88-99 without the assert of line 99.
ShortestPathNoAssert ==
    /\ pc = "shortest"
    /\ todo # {}
    /\ LET p == FirstSorted(todo)
           paths == AllShortestPaths(fsm_arcs, p[1], p[2])
       IN  /\ todo' = todo \ {p}
           /\ ambiguity' = IF Cardinality(paths) # 1 THEN ambiguity \cup {p} ELSE ambiguity
    /\ UNCHANGED <<all_arcs, pc, all_states, all_state_pairs, blocked_transitions,
                   fsm_arcs, combination_paths, walk, path, all_paths, unwind,
                   err, err_at>>

\* Lines 88-99: one turn of the loop over the sorted non-blocked pairs.
ShortestPath ==
    /\ pc = "shortest"
    /\ todo # {}
    /\ LET p == FirstSorted(todo)
           paths == AllShortestPaths(fsm_arcs, p[1], p[2])
       IN  /\ todo' = todo \ {p}
           /\ IF paths = {}
              THEN Raise("NetworkXNoPath", p) /\ UNCHANGED ambiguity
              ELSE IF Cardinality(paths) # 1
              THEN /\ ambiguity' = ambiguity \cup {p}
                   /\ UNCHANGED <<pc, err, err_at>>
              ELSE IF (CHOOSE q \in paths : TRUE) = all_paths[p]
              THEN UNCHANGED <<pc, err, err_at, ambiguity>>
              ELSE Raise("RoutingInconsistency", p) /\ UNCHANGED ambiguity
    /\ UNCHANGED <<all_arcs, all_states, all_state_pairs, blocked_transitions,
                   fsm_arcs, combination_paths, walk, path, all_paths, unwind>>

\* Lines 101-109.
UnwindStudy ==
    /\ pc = "shortest"
    /\ todo = {}
    /\ unwind' = [k \in UNION {{<<p, e>> : e \in Intermediates(combination_paths[p])}
                               : p \in DOMAIN combination_paths} |->
                     ErrPath(all_paths, combination_paths[k[1]], k[2])]
    /\ pc' = "done"
    /\ UNCHANGED <<all_arcs, all_states, all_state_pairs, blocked_transitions,
                   fsm_arcs, combination_paths, walk, path, all_paths, todo,
                   ambiguity, err, err_at>>

Next ==
    \/ Derive
    \/ TableIsComplete
    \/ StartPath
    \/ AppendStep
    \/ CopyPaths
    \/ ShortestPath
    \/ UnwindStudy

Spec == Init /\ [][Next]_vars
SpecWide == InitWide /\ [][Next]_vars
SpecPartial == InitPartial /\ [][Next]_vars

\* --------------------------------------------------------------- properties

\* Lines 42-48 ran without KeyError.
Derived == pc # "derive" /\ all_state_pairs \subseteq DOMAIN all_arcs
\* all_paths has been built (lines 63-66).
PathsBuilt == pc \in {"shortest", "done"} \/ (pc = "abort" /\ err \in {"RoutingInconsistency", "NetworkXNoPath"})

\* The pairs whose own entry is not ERROR, and the graph of their steps.
NonBlockedPairs == {p \in all_state_pairs : all_arcs[p] # ERROR}
OneHopGraph == {<<p[1], all_arcs[p]>> : p \in NonBlockedPairs}

\* No state occurs twice in p.
NoRepeat(p) == \A i, j \in 1 .. Len(p) : p[i] = p[j] => i = j
IsWalk(p, G) == \A i \in 1 .. Len(p) - 1 : <<p[i], p[i + 1]>> \in G

RECURSIVE Hops(_, _, _, _)
\* The least number of arcs of G from a state of S to n, counted from k;
\* -1 when n cannot be reached.
Hops(G, S, n, k) ==
    IF n \in S THEN k
    ELSE LET T == S \cup {a[2] : a \in {b \in G : b[1] \in S}}
         IN  IF T = S THEN -1 ELSE Hops(G, T, n, k + 1)
Dist(G, c, n) == Hops(G, {c}, n, 0)

\* Every walk of G from c to n with Dist(G, c, n) arcs.
MinPaths(G, c, n) ==
    LET d == Dist(G, c, n)
    IN  IF d < 1 THEN {}
        ELSE {s \in {[i \in 1 .. d + 1 |->
                         IF i = 1 THEN c ELSE IF i = d + 1 THEN n ELSE f[i]]
                     : f \in [2 .. d -> all_states]} : IsWalk(s, G)}

RECURSIVE TableWalk(_, _, _)
\* Where the lookups all_arcs[current, n] lead from the path p.
TableWalk(arcs, p, n) ==
    IF Last(p) = n THEN "reached"
    ELSE IF <<Last(p), n>> \notin DOMAIN arcs THEN "nokey"
    ELSE LET v == arcs[<<Last(p), n>>]
         IN  IF v = ERROR THEN "blocked"
             ELSE IF v \in Elems(p) THEN "cycle"
             ELSE TableWalk(arcs, Append(p, v), n)

\* The states a table mentions, as a row, a target or a step.
StateDomain(arcs) == (UNION {{p[1], p[2], arcs[p]} : p \in DOMAIN arcs}) \ {ERROR}
Total(arcs) == AllStatePairs(StateDomain(arcs)) \subseteq DOMAIN arcs

\* C1: the walk of a combination pair stops with RoutingCycleError as soon as
\* a state repeats in its path; it never goes on past a repeated state.
C1_WalkStopsAtRepeat ==
    ~NoRepeat(path) => (pc = "abort" /\ err = "RoutingCycle")

\* C2: a table that is not total over its state domain makes the analysis
\* fail on the totality check, before the blocked transitions, the arcs or
\* any path is derived from it.
C2_TotalityValidatedFirst ==
    ~Total(all_arcs) =>
        \/ pc = "derive"
        \/ /\ pc = "abort"
           /\ err \in {"IncompleteTable", "KeyError"}
           /\ blocked_transitions = {}
           /\ fsm_arcs = {}
           /\ DOMAIN combination_paths = {}

\* C3 as claimed: when the analysis completes, the canonical path of every
\* non-blocked pair is a walk of the arc graph of minimum length, ties included.
C3_CanonicalIsShortest ==
    pc = "done" =>
        \A p \in NonBlockedPairs :
            /\ IsWalk(all_paths[p], fsm_arcs)
            /\ Len(all_paths[p]) = Dist(fsm_arcs, p[1], p[2]) + 1

\* C3 as amended: when the analysis completes, the canonical path of every
\* non-blocked pair (c, n) is a walk of the arc graph from c to n, and it has
\* minimum length whenever the graph has exactly one minimum-length path
\* from c to n; when several tie it may be longer.
C3_CanonicalIsWalkAndShortestIfUnique ==
    pc = "done" =>
        \A p \in NonBlockedPairs :
            /\ all_paths[p][1] = p[1]
            /\ Last(all_paths[p]) = p[2]
            /\ IsWalk(all_paths[p], fsm_arcs)
            /\ Len(all_paths[p]) >= Dist(fsm_arcs, p[1], p[2]) + 1
            /\ Cardinality(MinPaths(fsm_arcs, p[1], p[2])) = 1
                   => Len(all_paths[p]) = Dist(fsm_arcs, p[1], p[2]) + 1

\* A completed run with a walked pair that has several shortest paths, its
\* canonical path one of them, and a pair that has one shortest path.
C3_Witness ==
    /\ pc = "done"
    /\ \E p \in DOMAIN combination_paths :
           /\ Cardinality(MinPaths(fsm_arcs, p[1], p[2])) > 1
           /\ all_paths[p] \in MinPaths(fsm_arcs, p[1], p[2])
    /\ \E p \in NonBlockedPairs : MinPaths(fsm_arcs, p[1], p[2]) = {all_paths[p]}

\* C4: when the analysis completes, every non-blocked pair with exactly one
\* minimum-length path in the arc graph has that path as its canonical path;
\* a run that ends with RoutingInconsistencyError names a pair whose only
\* minimum-length path differs from its canonical path.
C4_UniqueShortestIsCanonical ==
    /\ pc = "done" =>
          \A p \in NonBlockedPairs :
              Cardinality(MinPaths(fsm_arcs, p[1], p[2])) = 1
                  => MinPaths(fsm_arcs, p[1], p[2]) = {all_paths[p]}
    /\ (pc = "abort" /\ err = "RoutingInconsistency") =>
          /\ Cardinality(MinPaths(fsm_arcs, err_at[1], err_at[2])) = 1
          /\ all_paths[err_at] \notin MinPaths(fsm_arcs, err_at[1], err_at[2])

\* The assert of line 99 has failed for a walked pair.
C4_Witness ==
    /\ pc = "abort"
    /\ err = "RoutingInconsistency"
    /\ err_at \in DOMAIN combination_paths

\* C5: every pair is classified by its own entry: blocked iff the entry is
\* ERROR, direct (path [c, n]) iff the entry is n, combination (walked path)
\* iff the entry is another state.
C5_ClassifiedByOwnEntry ==
    (pc \in {"shortest", "done"}) =>
        \A p \in all_state_pairs :
            /\ p \in blocked_transitions <=> all_arcs[p] = ERROR
            /\ p \in DOMAIN combination_paths <=> all_arcs[p] \notin {ERROR, p[2]}
            /\ (p \in DOMAIN all_paths /\ p \notin DOMAIN combination_paths)
                   <=> all_arcs[p] = p[2]

\* C6: every path of all_paths has at least two states, holds no ERROR and
\* holds no state twice.
C6_PathsWellFormed ==
    \A k \in DOMAIN all_paths :
        /\ Len(all_paths[k]) >= 2
        /\ ERROR \notin Elems(all_paths[k])
        /\ NoRepeat(all_paths[k])

\* C7: when the run has ended, every defective pair has been reported: every
\* combination pair whose walk hits ERROR, and every pair whose only shortest
\* path differs from its canonical path.
C7_EveryDefectReported ==
    (pc \in {"abort", "done"} /\ Derived) =>
        /\ \A p \in CombinationPairs :
               TableWalk(all_arcs, <<p[1]>>, p[2]) = "blocked"
                   => (err = "RoutingBlocked" /\ err_at = p)
        /\ PathsBuilt =>
               \A p \in NonBlockedPairs :
                   (/\ Cardinality(MinPaths(fsm_arcs, p[1], p[2])) = 1
                    /\ all_paths[p] \notin MinPaths(fsm_arcs, p[1], p[2]))
                       => (err = "RoutingInconsistency" /\ err_at = p)

\* C8: for every walked path [c, .., n] and every intermediate state e of it
\* the unwind study has a result: the canonical path of (e, c), from e to c,
\* when (e, c) is not blocked, and the unrecoverable mark exactly when
\* (e, c) is blocked.
C8_UnwindComplete ==
    pc = "done" =>
        \A p \in DOMAIN combination_paths :
            \A e \in Intermediates(combination_paths[p]) :
                /\ <<p, e>> \in DOMAIN unwind
                /\ <<e, p[1]>> \in all_state_pairs
                /\ all_arcs[<<e, p[1]>>] # ERROR =>
                       /\ unwind[<<p, e>>] = all_paths[<<e, p[1]>>]
                       /\ unwind[<<p, e>>][1] = e
                       /\ Last(unwind[<<p, e>>]) = p[1]
                       /\ IsWalk(unwind[<<p, e>>], OneHopGraph)
                /\ unwind[<<p, e>>] = UNRECOVERABLE <=> all_arcs[<<e, p[1]>>] = ERROR

\* A completed run with an intermediate state that has a way back and one
\* that has none.
C8_Witness ==
    /\ pc = "done"
    /\ \E k \in DOMAIN unwind : unwind[k] = UNRECOVERABLE
    /\ \E k \in DOMAIN unwind : unwind[k] # UNRECOVERABLE /\ Len(unwind[k]) > 2

\* C9: fsm_arcs is the set of (c, all_arcs[c, n]) over the non-blocked pairs;
\* the consecutive states of every canonical path are arcs of it, and every
\* hop of a walked path for (c, n) is the entry all_arcs[x, n] of the state x
\* before it.
C9_PathHopsAreArcs ==
    Derived =>
        /\ fsm_arcs = OneHopGraph
        /\ \A k \in DOMAIN all_paths : IsWalk(all_paths[k], OneHopGraph)
        /\ \A k \in DOMAIN combination_paths :
               /\ IsWalk(combination_paths[k], OneHopGraph)
               /\ \A i \in 1 .. Len(combination_paths[k]) - 1 :
                      combination_paths[k][i + 1] =
                          all_arcs[<<combination_paths[k][i], k[2]>>]

\* A completed run with a walked path of four states.
C9_Witness ==
    /\ pc = "done"
    /\ \E k \in DOMAIN combination_paths : Len(combination_paths[k]) = 4

\* C10 as claimed: when the analysis completes, no blocked pair is an arc and
\* the arc graph has no path from c to n for a blocked pair (c, n).
C10_BlockedUnreachable ==
    pc = "done" =>
        \A p \in blocked_transitions :
            /\ p \notin fsm_arcs
            /\ Dist(fsm_arcs, p[1], p[2]) = -1

\* C10 as amended: a blocked pair has no canonical path: it is never walked,
\* never given a path in all_paths and never compared with the shortest
\* paths; the arc graph may still hold the arc (c, n) or a path from c to n.
C10_BlockedHasNoCanonicalPath ==
    Derived =>
        \A p \in all_state_pairs :
            all_arcs[p] = ERROR =>
                /\ p \in blocked_transitions
                /\ p \notin DOMAIN all_paths
                /\ p \notin DOMAIN combination_paths
                /\ p \notin todo
                /\ p # walk

\* A completed run with a blocked pair that is an arc of the graph.
C10_Witness ==
    /\ pc = "done"
    /\ blocked_transitions \cap fsm_arcs # {}

====
